---- MODULE Spec2Model ----
(***************************************************************************)
(* Model of sl-hello-goodbye (src/bin/sl_hello_goodbye.rs).                *)
(*                                                                         *)
(* do_stuff() runs three concurrent stages connected by two bounded mpsc   *)
(* channels: a line-ingestion task, a line-reassembly task and the main    *)
(* loop, which parses every logical entry and drives the presence          *)
(* bookkeeping (last_seen_in_chat_range, notify_handles).                  *)
(*                                                                         *)
(*   Spec      the body of the main loop, applied to parsed lines          *)
(*   SpecPipe  the three stages and the two channels                       *)
(*   SpecLoaded  the same stages, started with both channels loaded        *)
(*   SpecFn    the pure functions (parsers), applied to input strings      *)
(*                                                                         *)
(* Strings are sequences of one-character strings.  Option<T> is <<>>      *)
(* (None) or <<v>> (Some(v)).  Timestamps are whole seconds.               *)
(***************************************************************************)
EXTENDS Integers, Sequences, FiniteSets, TLC

VARIABLES
    \* ---- main loop (presence state machine) ----
    last_seen_in_chat_range, \* BTreeMap<String, PrimitiveDateTime>
    notify_handles,          \* BTreeMap<String, NotificationHandle>
    parsed_line,             \* the parse result the last iteration worked on
    show_called,             \* the last iteration called Notification::show()
    closed,                  \* per handle, how often close() was called on it
    next_handle,             \* number of handles the notification sink returned
    persisted,               \* (name, timestamp) pairs written to a store
    \* ---- pipeline ----
    ing_pc,                  \* ingestion task: "next" | "send" | "done"
    ing_line,                \* the line the ingestion task is sending
    lines_read,              \* every line next_line() returned, in order
    rx,                      \* channel tx -> rx
    reasm_pc,                \* reassembly task: "recv" | "flush" | "emit" | "done"
    last_line,               \* Option<String> buffer of the reassembly task
    held_line,               \* the line received while the buffer is being emitted
    flushed_after,           \* indices of lines after which a timeout flushed
    rx2,                     \* channel tx2 -> rx2
    main_pc,                 \* main: "loop" | "join" | "join2" | "done"
    consumed,                \* every entry rx2.recv() returned, in order
    \* ---- pure functions ----
    fn_in,                   \* the function called and its argument
    fn_out                   \* Some(value returned) once the call is done

presenceVars == <<last_seen_in_chat_range, notify_handles, parsed_line,
                  show_called, closed, next_handle, persisted>>
pipeVars == <<ing_pc, ing_line, lines_read, rx, reasm_pc, last_line,
              held_line, flushed_after, rx2, main_pc, consumed>>
fnVars == <<fn_in, fn_out>>
vars == <<presenceVars, pipeVars, fnVars>>

----------------------------------------------------------------------------
(* Bounds *)

MaxTime == 10       \* timestamps are 0..MaxTime seconds
MaxHandles == 2     \* the sink returns at most this many handles
MaxLines == 4       \* the source yields at most this many raw lines
MaxBurst == 3       \* raw lines that arrive while the channels are loaded

(* Program constants *)

GraceSecs == 5      \* std::time::Duration::from_secs(5)
ChannelCap == 16    \* tokio::sync::mpsc::channel(16)

None == <<>>
Some(v) == <<v>>
Times == 0..MaxTime

----------------------------------------------------------------------------
(* Strings *)

UpperChars == <<"A","B","C","D","E","F","G","H","I","J","K","L","M",
                "N","O","P","Q","R","S","T","U","V","W","X","Y","Z">>
LowerChars == <<"a","b","c","d","e","f","g","h","i","j","k","l","m",
                "n","o","p","q","r","s","t","u","v","w","x","y","z">>

UpperToLower ==
    [c \in {UpperChars[i] : i \in 1..26} |->
        LowerChars[CHOOSE i \in 1..26 : UpperChars[i] = c]]

\* char::to_lowercase, on ASCII
CharToLower(c) == IF c \in DOMAIN UpperToLower THEN UpperToLower[c] ELSE c

\* str::to_lowercase
to_lowercase(s) == [i \in 1..Len(s) |-> CharToLower(s[i])]

\* char::is_whitespace
IsWhitespace(c) == c \in {" ", "\t", "\n", "\r"}

\* lit occurs in s at position i (chumsky just(lit) applied at offset i)
JustAt(s, i, lit) ==
    /\ i + Len(lit) - 1 <= Len(s)
    /\ \A k \in 1..Len(lit) : s[i + k - 1] = lit[k]

\* str::contains
contains(s, pat) == \E i \in 1..(Len(s) + 1) : JustAt(s, i, pat)

\* str::trim
trim(s) ==
    LET nonws == {i \in 1..Len(s) : ~IsWhitespace(s[i])}
    IN  IF nonws = {} THEN <<>>
        ELSE LET lo == CHOOSE i \in nonws : \A j \in nonws : i <= j
                 hi == CHOOSE i \in nonws : \A j \in nonws : i >= j
             IN  SubSeq(s, lo, hi)

----------------------------------------------------------------------------
(* SecondLifeChatVolume, SecondLifeArea: #[derive(PartialOrd, Ord)] orders   *)
(* the variants by declaration.                                             *)

SecondLifeChatVolume == <<"Whisper", "Say", "Shout", "RegionSay">>
SecondLifeArea == <<"ChatRange", "DrawDistance", "Region">>

VolumeRank(v) == CHOOSE i \in 1..4 : SecondLifeChatVolume[i] = v

\* variant: the comparison is made against Shout
VolumeAtMostShout(v) == VolumeRank(v) <= VolumeRank("Shout")

\* volume <= SecondLifeChatVolume::Say
VolumeAtMostSay(v) == VolumeRank(v) <= VolumeRank("Say")

\* str::strip_prefix: Some(rest) if s starts with lit
strip_prefix(s, lit) ==
    IF JustAt(s, 1, lit) THEN Some(SubSeq(s, Len(lit) + 1, Len(s))) ELSE None

WhispersPrefix == <<"w","h","i","s","p","e","r","s",":"," ">>
ShoutsPrefix == <<"s","h","o","u","t","s",":"," ">>

\* variant: the prefix is recognised but left in the message
volume_and_message_keeps_prefix(s) ==
    IF strip_prefix(s, WhispersPrefix) # None
    THEN <<"Whisper", s>>
    ELSE IF strip_prefix(s, ShoutsPrefix) # None
         THEN <<"Shout", s>>
         ELSE <<"Say", s>>

\* SecondLifeChatVolume::volume_and_message
volume_and_message(s) ==
    IF strip_prefix(s, WhispersPrefix) # None
    THEN <<"Whisper", strip_prefix(s, WhispersPrefix)[1]>>
    ELSE IF strip_prefix(s, ShoutsPrefix) # None
         THEN <<"Shout", strip_prefix(s, ShoutsPrefix)[1]>>
         ELSE <<"Say", s>>

----------------------------------------------------------------------------
(* welcome_greeting_parser *)

GreetingWords ==
    << <<"h","i">>,
       <<"h","e","l","l","o">>,
       <<"h","a","l","l","o">>,
       <<"a","h","o","y">>,
       <<"w","b">>,
       <<"w","e","l","c","o","m","e"," ","b","a","c","k">> >>

\* just("hi").or(just("hello")) ... : the first alternative that matches
\* decides; the result is the offset after it, 0 if none matches
GreetingEnd(s) ==
    LET m == {k \in 1..Len(GreetingWords) : JustAt(s, 1, GreetingWords[k])}
    IN  IF m = {} THEN 0
        ELSE Len(GreetingWords[CHOOSE k \in m : \A j \in m : k <= j]) + 1

\* whitespace(): skips zero or more whitespace characters from offset p
SkipWhitespace(s, p) ==
    CHOOSE q \in p..(Len(s) + 1) :
        /\ \A i \in p..(q - 1) : IsWhitespace(s[i])
        /\ q = Len(s) + 1 \/ ~IsWhitespace(s[q])

\* just(",").or(just("and")).or(just("und")).or(just("\n")) at offset q:
\* the length of the separator found there, 0 if there is none
SeparatorLen(s, q) ==
    IF JustAt(s, q, <<",">>) THEN 1
    ELSE IF JustAt(s, q, <<"a","n","d">>) THEN 3
    ELSE IF JustAt(s, q, <<"u","n","d">>) THEN 3
    ELSE IF JustAt(s, q, <<"\n">>) THEN 1
    ELSE 0

\* take_until(<separator or end>.rewind()) from offset p: the offset at which
\* the item stops
ItemEnd(s, p) ==
    CHOOSE q \in p..(Len(s) + 1) :
        /\ q = Len(s) + 1 \/ SeparatorLen(s, q) > 0
        /\ \A i \in p..(q - 1) : SeparatorLen(s, i) = 0

\* take_until(..).separated_by(..) from offset p
RECURSIVE GreetedItems(_, _)
GreetedItems(s, p) ==
    LET q == ItemEnd(s, p)
        item == SubSeq(s, p, q - 1)
    IN  IF q > Len(s) THEN <<item>>
        ELSE <<item>> \o GreetedItems(s, q + SeparatorLen(s, q))

\* Result<Vec<String>, _>: ok is FALSE for Err
welcome_greeting_parser(s) ==
    LET e == GreetingEnd(s)
    IN  IF e = 0 THEN [ok |-> FALSE, names |-> <<>>]
        ELSE LET items == GreetedItems(s, SkipWhitespace(s, e))
             IN  [ok |-> TRUE,
                  names |-> [i \in 1..Len(items) |-> trim(items[i])]]

----------------------------------------------------------------------------
(* Parse results.  A SecondLifeChatLogLine is flattened into one record;   *)
(* fields a variant does not have hold "-" or the empty string.            *)

\* options.avatar_name
avatar_name == <<"J","o","a","n">>

AvatarNames == { <<"J","o">>, <<"J","o","a","n">>, <<"j","o","a","n">> }

ChatMessages ==
    { <<"H","i"," ","J","o">>,
      <<"h","i"," ","a","n">>,
      <<"h","i">>,
      <<"y","o"," ","j","o">>,
      <<"w","b"," ","x",","," ","a","n">>,
      <<"h","i"," ","x",","," ","a","n","d"," ","y">> }

Timestamps == {None} \cup {Some(t) : t \in Times}

\* one absent and one present timestamp, for the lines whose timestamp no
\* pattern of the loop reads
SampleTimestamps == {None, Some(0)}

\* volume_and_message only ever yields Whisper, Shout or Say
ParsedVolumes == {"Whisper", "Say", "Shout"}

ParseErr ==
    [ok |-> FALSE, timestamp |-> None, event |-> "-", name |-> <<>>,
     message |-> "-", area |-> "-", volume |-> "-", text |-> <<>>]

AvatarLine(ts, n, m, a, v, t) ==
    [ok |-> TRUE, timestamp |-> ts, event |-> "AvatarLine", name |-> n,
     message |-> m, area |-> a, volume |-> v, text |-> t]

NonAvatarLine(ts, e) ==
    [ok |-> TRUE, timestamp |-> ts, event |-> e, name |-> <<>>,
     message |-> "-", area |-> "-", volume |-> "-", text |-> <<>>]

----------------------------------------------------------------------------
(* The grammar of a log line.  A parser applied at position p of s yields  *)
(* [ok, ..., next]: next is the position after the text it consumed.       *)
(* A timestamp is <<year, month, day, hour, minute, second>>.              *)

Digits == {"0", "1", "2", "3", "4", "5", "6", "7", "8", "9"}

DigitValue ==
    [c \in Digits |->
        CASE c = "0" -> 0 [] c = "1" -> 1 [] c = "2" -> 2 [] c = "3" -> 3
          [] c = "4" -> 4 [] c = "5" -> 5 [] c = "6" -> 6 [] c = "7" -> 7
          [] c = "8" -> 8 [] c = "9" -> 9]

\* one_of("0123456789").repeated().exactly(n) applied at position i
DigitsAt(s, i, n) ==
    /\ i + n - 1 <= Len(s)
    /\ \A k \in i..(i + n - 1) : s[k] \in Digits

\* the number written by the n digits at position i
RECURSIVE NumberAt(_, _, _)
NumberAt(s, i, n) ==
    IF n = 0 THEN 0
    ELSE NumberAt(s, i, n - 1) * 10 + DigitValue[s[i + n - 1]]

\* time::util::days_in_year_month
DaysInMonth(year, month) ==
    IF month \in {4, 6, 9, 11} THEN 30
    ELSE IF month # 2 THEN 31
    ELSE IF year % 4 = 0 /\ (year % 100 # 0 \/ year % 400 = 0) THEN 29
    ELSE 28

\* PrimitiveDateTime::parse accepts the components
ValidDateTime(t) ==
    /\ t[2] \in 1..12
    /\ t[3] \in 1..DaysInMonth(t[1], t[2])
    /\ t[4] \in 0..23
    /\ t[5] \in 0..59
    /\ t[6] \in 0..59

\* the unexpanded format string some log lines carry in place of a time
PlaceholderTimestamp ==
    <<"[", "[", "y", "e", "a", "r", ",", "d", "a", "t", "e", "t", "i", "m",
      "e", ",", "s", "l", "t", "]", "/", "[", "m", "t", "h", "n", "u", "m",
      ",", "d", "a", "t", "e", "t", "i", "m", "e", ",", "s", "l", "t", "]",
      "/", "[", "d", "a", "y", ",", "d", "a", "t", "e", "t", "i", "m", "e",
      ",", "s", "l", "t", "]", " ", "[", "h", "o", "u", "r", ",", "d", "a",
      "t", "e", "t", "i", "m", "e", ",", "s", "l", "t", "]", ":", "[", "m",
      "i", "n", ",", "d", "a", "t", "e", "t", "i", "m", "e", ",", "s", "l",
      "t", "]", "]">>

\* the first alternative of sl_chat_log_line_parser: "[" date " " time "]",
\* or else the placeholder
timestamp_parser(s) ==
    LET fixed == /\ JustAt(s, 1, <<"[">>) /\ DigitsAt(s, 2, 4)
                 /\ JustAt(s, 6, <<"/">>) /\ DigitsAt(s, 7, 2)
                 /\ JustAt(s, 9, <<"/">>) /\ DigitsAt(s, 10, 2)
                 /\ JustAt(s, 12, <<" ">>) /\ DigitsAt(s, 13, 2)
                 /\ JustAt(s, 15, <<":">>) /\ DigitsAt(s, 16, 2)
        seconds == JustAt(s, 18, <<":">>) /\ DigitsAt(s, 19, 2)
        close == IF seconds THEN 21 ELSE 18
        t == <<NumberAt(s, 2, 4), NumberAt(s, 7, 2), NumberAt(s, 10, 2),
               NumberAt(s, 13, 2), NumberAt(s, 16, 2),
               IF seconds THEN NumberAt(s, 19, 2) ELSE 0>>
    IN  IF fixed /\ JustAt(s, close, <<"]">>) /\ ValidDateTime(t)
        THEN [ok |-> TRUE, timestamp |-> Some(t), next |-> close + 1]
        ELSE IF JustAt(s, 1, PlaceholderTimestamp)
             THEN [ok |-> TRUE, timestamp |-> None,
                   next |-> Len(PlaceholderTimestamp) + 1]
             ELSE [ok |-> FALSE, timestamp |-> None, next |-> 1]

\* area_of_significance_parser applied at position p
area_of_significance_parser(s, p) ==
    IF JustAt(s, p, <<"c","h","a","t"," ","r","a","n","g","e">>)
    THEN [ok |-> TRUE, area |-> "ChatRange", next |-> p + 10]
    ELSE IF JustAt(s, p, <<"d","r","a","w"," ","d","i","s","t","a","n","c","e">>)
    THEN [ok |-> TRUE, area |-> "DrawDistance", next |-> p + 13]
    ELSE IF JustAt(s, p, <<"t","h","e"," ","r","e","g","i","o","n">>)
    THEN [ok |-> TRUE, area |-> "Region", next |-> p + 10]
    ELSE IF JustAt(s, p, <<"r","e","g","i","o","n">>)
    THEN [ok |-> TRUE, area |-> "Region", next |-> p + 6]
    ELSE [ok |-> FALSE, area |-> "-", next |-> p]

\* digits(10) applied at position p: the position after the digits
RECURSIVE DigitsEnd(_, _)
DigitsEnd(s, p) ==
    IF p <= Len(s) /\ s[p] \in Digits THEN DigitsEnd(s, p + 1) ELSE p

\* distance_parser applied at position p: digits "." digits " m"
distance_parser(s, p) ==
    LET dot == DigitsEnd(s, p)
        unit == DigitsEnd(s, dot + 1)
    IN  IF dot > p /\ JustAt(s, dot, <<".">>) /\ unit > dot + 1
           /\ JustAt(s, unit, <<" ", "m">>)
        THEN [ok |-> TRUE, next |-> unit + 2]
        ELSE [ok |-> FALSE, next |-> p]

\* avatar_entered_area_message_parser
avatar_entered_area_message_parser(m) ==
    LET a == area_of_significance_parser(m, 9)
        d == distance_parser(m, a.next + 2)
        after == IF JustAt(m, a.next, <<" ", "(">>) /\ d.ok
                    /\ JustAt(m, d.next, <<")">>)
                 THEN d.next + 1
                 ELSE a.next
    IN  IF JustAt(m, 1, <<"e","n","t","e","r","e","d"," ">>) /\ a.ok
           /\ JustAt(m, after, <<".">>)
        THEN [ok |-> TRUE, area |-> a.area]
        ELSE [ok |-> FALSE, area |-> "-"]

\* avatar_left_area_message_parser
avatar_left_area_message_parser(m) ==
    LET a == area_of_significance_parser(m, 6)
    IN  IF JustAt(m, 1, <<"l","e","f","t"," ">>) /\ a.ok /\ JustAt(m, a.next, <<".">>)
        THEN [ok |-> TRUE, area |-> a.area]
        ELSE [ok |-> FALSE, area |-> "-"]

\* avatar_message_parser: the first alternative that succeeds, the last one
\* (chat) takes any text; the result is an avatar line without timestamp
avatar_message_parser(name, m) ==
    IF JustAt(m, 1, <<"i","s"," ","o","n","l","i","n","e",".">>)
    THEN AvatarLine(None, name, "CameOnline", "-", "-", <<>>)
    ELSE IF JustAt(m, 1, <<"i","s"," ","o","f","f","l","i","n","e",".">>)
    THEN AvatarLine(None, name, "WentOffline", "-", "-", <<>>)
    ELSE IF avatar_entered_area_message_parser(m).ok
    THEN AvatarLine(None, name, "EnteredArea",
                    avatar_entered_area_message_parser(m).area, "-", <<>>)
    ELSE IF avatar_left_area_message_parser(m).ok
    THEN AvatarLine(None, name, "LeftArea",
                    avatar_left_area_message_parser(m).area, "-", <<>>)
    ELSE IF JustAt(m, 1, <<"/", "m", "e", " ">>)
    THEN LET vm == volume_and_message(SubSeq(m, 5, Len(m)))
         IN  AvatarLine(None, name, "Emote", "-", vm[1], vm[2])
    ELSE LET vm == volume_and_message(m)
         IN  AvatarLine(None, name, "Chat", "-", vm[1], vm[2])

\* chat_log_event_parser: "Second Life: " and a system message (its last
\* alternative takes any text), or a name up to the first ":" and an avatar
\* message, or any text
chat_log_event_parser(r) ==
    LET colons == {i \in 1..Len(r) : r[i] = ":"}
    IN  IF JustAt(r, 1, <<"S","e","c","o","n","d"," ","L","i","f","e",":"," ">>)
        THEN NonAvatarLine(None, "SystemMessage")
        ELSE IF colons # {}
        THEN LET c == CHOOSE i \in colons : \A j \in colons : i <= j
                 p == SkipWhitespace(r, c + 1)
             IN  avatar_message_parser(SubSeq(r, 1, c - 1),
                                       SubSeq(r, p, Len(r)))
        ELSE NonAvatarLine(None, "OtherMessage")

\* variant: a line without a timestamp is parsed as an event all the same
sl_chat_log_line_parser_lenient(s) ==
    LET ts == timestamp_parser(s)
        r == SubSeq(s, SkipWhitespace(s, ts.next), Len(s))
    IN  [chat_log_event_parser(r) EXCEPT !.timestamp = ts.timestamp]

\* sl_chat_log_line_parser(): the timestamp, whitespace, the event
sl_chat_log_line_parser(s) ==
    LET ts == timestamp_parser(s)
        r == SubSeq(s, SkipWhitespace(s, ts.next), Len(s))
    IN  IF ts.ok
        THEN [chat_log_event_parser(r) EXCEPT !.timestamp = ts.timestamp]
        ELSE ParseErr

\* Result<SecondLifeChatLogLine, _> values the loop is run on
ParsedLines ==
    {ParseErr}
    \cup {NonAvatarLine(ts, e) : ts \in SampleTimestamps,
                                 e \in {"SystemMessage", "OtherMessage"}}
    \cup {AvatarLine(ts, n, m, "-", "-", <<>>) :
            ts \in SampleTimestamps, n \in AvatarNames,
            m \in {"CameOnline", "WentOffline"}}
    \cup {AvatarLine(ts, n, m, a, "-", <<>>) :
            ts \in SampleTimestamps, n \in AvatarNames,
            m \in {"EnteredArea", "LeftArea"},
            a \in {"DrawDistance", "Region"}}
    \cup {AvatarLine(ts, n, m, "ChatRange", "-", <<>>) :
            ts \in Timestamps, n \in AvatarNames,
            m \in {"EnteredArea", "LeftArea"}}
    \cup {AvatarLine(ts, n, "Chat", "-", v, <<"H","i"," ","J","o">>) :
            ts \in Timestamps, n \in AvatarNames, v \in ParsedVolumes}
    \cup {AvatarLine(ts, n, "Chat", "-", "Say", t) :
            ts \in SampleTimestamps, n \in AvatarNames, t \in ChatMessages}
    \cup {AvatarLine(ts, n, "Emote", "-", v, <<"h","i">>) :
            ts \in Timestamps, n \in AvatarNames, v \in ParsedVolumes}

----------------------------------------------------------------------------
(* BTreeMap operations *)

\* BTreeMap::insert
Insert(map, k, v) ==
    [x \in (DOMAIN map) \cup {k} |-> IF x = k THEN v ELSE map[x]]

\* BTreeMap::remove
Remove(map, k) == [x \in (DOMAIN map) \ {k} |-> map[x]]

EmptyMap == [x \in {} |-> 0]

----------------------------------------------------------------------------
(* The body of the main loop, `while let Some(line) = rx2.recv().await`.    *)
(* st is the loop's state: ls = last_seen_in_chat_range, nh =              *)
(* notify_handles, closed = close() calls per handle, next = handles       *)
(* handed out by the sink, shown = show() was called.                      *)

\* variant: the pattern does not look at the area
IsEnteredAnyArea(pl) ==
    /\ pl.ok
    /\ pl.event = "AvatarLine"
    /\ pl.message = "EnteredArea"

IsEnteredChatRange(pl) ==
    /\ pl.ok
    /\ pl.event = "AvatarLine"
    /\ pl.message = "EnteredArea"
    /\ pl.area = "ChatRange"

IsLeftChatRange(pl) ==
    /\ pl.ok
    /\ pl.event = "AvatarLine"
    /\ pl.message = "LeftArea"
    /\ pl.area = "ChatRange"

IsChat(pl) == pl.ok /\ pl.event = "AvatarLine" /\ pl.message = "Chat"

\* the Emote pattern also requires timestamp: Some(timestamp)
IsTimestampedEmote(pl) ==
    /\ pl.ok
    /\ pl.event = "AvatarLine"
    /\ pl.message = "Emote"
    /\ pl.timestamp # None

\* last_seen_age: Option<time::Duration>, in seconds
\* variant: with a record and no timestamp the age counts as zero
LastSeenAgeZeroWithoutTimestamp(ls, name, timestamp) ==
    IF to_lowercase(name) \in DOMAIN ls
    THEN IF timestamp # None
         THEN Some(timestamp[1] - ls[to_lowercase(name)])
         ELSE Some(0)
    ELSE None

LastSeenAge(ls, name, timestamp) ==
    IF to_lowercase(name) \in DOMAIN ls
    THEN IF timestamp # None
         THEN Some(timestamp[1] - ls[to_lowercase(name)])
         ELSE None
    ELSE None

\* variant: the grace window is compared with >=
ShouldNotifyFromFive(last_seen_age) ==
    \/ last_seen_age = None
    \/ last_seen_age # None /\ last_seen_age[1] >= GraceSecs

\* last_seen_age.is_none() || last_seen_age.is_some_and(|a| a > from_secs(5))
ShouldNotify(last_seen_age) ==
    \/ last_seen_age = None
    \/ last_seen_age # None /\ last_seen_age[1] > GraceSecs

\* variant: a missing timestamp is stored as the epoch
UpdateLastSeenAlways(ls, name, timestamp) ==
    Insert(ls, to_lowercase(name), IF timestamp # None THEN timestamp[1] ELSE 0)

\* if let Some(timestamp) = timestamp { last_seen_in_chat_range.insert(..) }
UpdateLastSeen(ls, name, timestamp) ==
    IF timestamp # None
    THEN Insert(ls, to_lowercase(name), timestamp[1])
    ELSE ls

\* variant: the handle is looked up with get() and stays in the map
CloseWithoutRemove(st, key) ==
    IF key \in DOMAIN st.nh
    THEN [st EXCEPT !.closed = [@ EXCEPT ![st.nh[key]] = @ + 1]]
    ELSE st

\* if let Some(notify_handle) = notify_handles.remove(&name)
\*     { notify_handle.close(); }
CloseAndRemove(st, key) ==
    IF key \in DOMAIN st.nh
    THEN [st EXCEPT !.nh = Remove(st.nh, key),
                    !.closed = [@ EXCEPT ![st.nh[key]] = @ + 1]]
    ELSE st

\* for name in to_remove { ... }; keys is the Vec to_remove as a set (its
\* elements are distinct map keys, so the order does not matter)
RECURSIVE CloseAll(_, _)
CloseAll(st, keys) ==
    IF keys = {} THEN st
    ELSE LET k == CHOOSE x \in keys : TRUE
         IN  CloseAll(CloseAndRemove(st, k), keys \ {k})

\* Notification::new()...show(): Ok(handle) is inserted, Err is logged
ShowNotification(st, name, sinkOk) ==
    IF sinkOk
    THEN [st EXCEPT !.nh = Insert(st.nh, to_lowercase(name), st.next + 1),
                    !.next = st.next + 1,
                    !.shown = TRUE]
    ELSE [st EXCEPT !.shown = TRUE]

\* variant: last_seen is written only when a notification was issued
EnteredBlockUpdateOnNotify(pl, st, sinkOk) ==
    IF IsEnteredChatRange(pl)
    THEN LET age == LastSeenAge(st.ls, pl.name, pl.timestamp)
         IN  IF ShouldNotify(age)
             THEN LET st1 == ShowNotification(st, pl.name, sinkOk)
                  IN  [st1 EXCEPT
                         !.ls = UpdateLastSeen(st1.ls, pl.name, pl.timestamp)]
             ELSE st
    ELSE st

\* first `if let`: EnteredArea { area: ChatRange, .. }
EnteredBlock(pl, st, sinkOk) ==
    IF IsEnteredChatRange(pl)
    THEN LET age == LastSeenAge(st.ls, pl.name, pl.timestamp)
             st1 == IF ShouldNotify(age)
                    THEN ShowNotification(st, pl.name, sinkOk)
                    ELSE st
         IN  [st1 EXCEPT !.ls = UpdateLastSeen(st1.ls, pl.name, pl.timestamp)]
    ELSE st

\* variant: the name is compared without lower-casing it
LeftKeysCaseSensitive(nh, name) == {n \in DOMAIN nh : n = name}

\* keys of notify_handles equal to the lower-cased name
LeftKeys(nh, name) == {n \in DOMAIN nh : n = to_lowercase(name)}

\* second `if let`: LeftArea { area: ChatRange }
LeftBlock(pl, st) ==
    IF IsLeftChatRange(pl)
    THEN LET st1 == [st EXCEPT
                       !.ls = UpdateLastSeen(st.ls, pl.name, pl.timestamp)]
         IN  CloseAll(st1, LeftKeys(st1.nh, pl.name))
    ELSE st

\* variant: an empty token matches no key
GreetedKeysNonEmpty(nh, greeted) ==
    {name \in DOMAIN nh :
        greeted # <<>> /\ contains(name, to_lowercase(greeted))}

\* variant: the token has to equal the key
GreetedKeysExact(nh, greeted) ==
    {name \in DOMAIN nh : name = to_lowercase(greeted)}

\* keys of notify_handles that contain the greeted token
GreetedKeys(nh, greeted) ==
    {name \in DOMAIN nh : contains(name, to_lowercase(greeted))}

\* for greeted in greeted { ... }
RECURSIVE CloseGreeted(_, _)
CloseGreeted(st, greeted) ==
    IF greeted = <<>> THEN st
    ELSE CloseGreeted(CloseAll(st, GreetedKeys(st.nh, Head(greeted))),
                      Tail(greeted))

\* *name == options.avatar_name
IsLocalAvatar(name) == name = avatar_name

\* third `if let`: Chat { message, volume }
ChatBlock(pl, st) ==
    IF IsChat(pl)
    THEN IF IsLocalAvatar(pl.name)
         THEN LET g == welcome_greeting_parser(to_lowercase(pl.text))
              IN  IF g.ok THEN CloseGreeted(st, g.names) ELSE st
         ELSE IF pl.timestamp # None /\ VolumeAtMostSay(pl.volume)
              THEN [st EXCEPT
                      !.ls = UpdateLastSeen(st.ls, pl.name, pl.timestamp)]
              ELSE st
    ELSE st

\* variant: the local avatar's emotes are left out like its chat lines
EmoteBlockExemptsLocal(pl, st) ==
    IF IsTimestampedEmote(pl) /\ VolumeAtMostSay(pl.volume)
       /\ ~IsLocalAvatar(pl.name)
    THEN [st EXCEPT !.ls = UpdateLastSeen(st.ls, pl.name, pl.timestamp)]
    ELSE st

\* fourth `if let`: timestamp: Some(timestamp), Emote { volume, .. }
EmoteBlock(pl, st) ==
    IF IsTimestampedEmote(pl) /\ VolumeAtMostSay(pl.volume)
    THEN [st EXCEPT !.ls = UpdateLastSeen(st.ls, pl.name, pl.timestamp)]
    ELSE st

\* one iteration of the loop on the parse result pl
LoopBody(pl, st, sinkOk) ==
    EmoteBlock(pl, ChatBlock(pl, LeftBlock(pl, EnteredBlock(pl, st, sinkOk))))

LoopState ==
    [ls |-> last_seen_in_chat_range, nh |-> notify_handles,
     closed |-> closed, next |-> next_handle, shown |-> FALSE]

\* show() is only reached from the first `if let`: the outcome of the sink
\* is drawn for those lines only
SinkOutcomes(pl) == IF IsEnteredChatRange(pl) THEN BOOLEAN ELSE {FALSE}

\* The sink may fail at any call; it hands out at most MaxHandles handles.
\* No statement of the loop writes to a store: both maps live in memory only.
MainLoopIteration ==
    \E pl \in ParsedLines : \E sinkOk \in SinkOutcomes(pl) :
        /\ parsed_line = None
        /\ sinkOk => next_handle < MaxHandles
        /\ LET st == LoopBody(pl, LoopState, sinkOk)
           IN  /\ last_seen_in_chat_range' = st.ls
               /\ notify_handles' = st.nh
               /\ closed' = st.closed
               /\ next_handle' = st.next
               /\ show_called' = st.shown
               /\ parsed_line' = Some(pl)
        /\ UNCHANGED persisted
        /\ UNCHANGED <<pipeVars, fnVars>>

PresenceInit ==
    /\ last_seen_in_chat_range = EmptyMap
    /\ notify_handles = EmptyMap
    /\ parsed_line = None
    /\ show_called = FALSE
    /\ closed = [h \in 1..MaxHandles |-> 0]
    /\ next_handle = 0
    /\ persisted = {}

PipeIdle ==
    /\ ing_pc = "next"
    /\ ing_line = None
    /\ lines_read = <<>>
    /\ rx = <<>>
    /\ reasm_pc = "recv"
    /\ last_line = None
    /\ held_line = None
    /\ flushed_after = {}
    /\ rx2 = <<>>
    /\ main_pc = "loop"
    /\ consumed = <<>>

\* variant: a failed parse ends the loop (as `parsed_line?` would)
NextIterationOnOk ==
    /\ parsed_line # None
    /\ parsed_line[1].ok
    /\ parsed_line' = None
    /\ show_called' = FALSE
    /\ UNCHANGED <<last_seen_in_chat_range, notify_handles, closed,
                   next_handle, persisted>>
    /\ UNCHANGED <<pipeVars, fnVars>>

\* the end of the loop body: parsed_line goes out of scope
NextIteration ==
    /\ parsed_line # None
    /\ parsed_line' = None
    /\ show_called' = FALSE
    /\ UNCHANGED <<last_seen_in_chat_range, notify_handles, closed,
                   next_handle, persisted>>
    /\ UNCHANGED <<pipeVars, fnVars>>

\* no call of a pure function is modelled on its own
FnIdle == fn_in = None /\ fn_out = None

Init == PresenceInit /\ PipeIdle /\ FnIdle

Next == MainLoopIteration \/ NextIteration

Spec == Init /\ [][Next]_vars

----------------------------------------------------------------------------
(* The pipeline: the ingestion task, the reassembly task and the main      *)
(* loop, connected by the channels (tx, rx) and (tx2, rx2).  A raw line is *)
(* [n, line]: n is its position in the source, kept to tell lines apart.   *)
(* An entry is [ids, text]: text is the String, ids the positions of the   *)
(* raw lines it was built from.                                            *)

\* a head, a line that starts with a space, an empty line and a line that
\* starts with a tab
RawLines == { <<"A">>, <<" ","c">>, <<>>, <<"\t","d">> }

\* variant: an empty line is not taken for a continuation line
IsContinuationSpaceOnly(line) == JustAt(line, 1, <<" ">>)

\* line.line().starts_with(' ') || line.line() == ""
IsContinuation(line) == JustAt(line, 1, <<" ">>) \/ line = <<>>

\* Some(line.line().to_string())
StartBuffer(raw) == [ids |-> <<raw.n>>, text |-> raw.line]

\* variant: the line is appended without the newline
AppendWithoutNewline(ll, raw) ==
    [ids |-> Append(ll.ids, raw.n), text |-> ll.text \o raw.line]

\* Some(format!("{}\n{}", ll, line.line()))
AppendToBuffer(ll, raw) ==
    [ids |-> Append(ll.ids, raw.n), text |-> ll.text \o <<"\n">> \o raw.line]

\* variant: the new line is sent instead of the buffer
EmitAndRestartDropsBuffer(ll, raw) ==
    [send |-> StartBuffer(raw), keep |-> StartBuffer(raw)]

\* variant: the new line is sent and the old buffer is kept
EmitAndRestartSwapped(ll, raw) == [send |-> StartBuffer(raw), keep |-> ll]

\* the non-continuation branch: tx2.send(ll.clone()) and Some(line)
EmitAndRestart(ll, raw) == [send |-> ll, keep |-> StartBuffer(raw)]

\* lines.next_line() returned Ok(Some(line))
IngestNext ==
    /\ ing_pc = "next"
    /\ Len(lines_read) < MaxLines
    /\ \E l \in RawLines :
          /\ ing_line' = Some([n |-> Len(lines_read) + 1, line |-> l])
          /\ lines_read' = Append(lines_read, l)
    /\ ing_pc' = "send"
    /\ UNCHANGED <<rx, reasm_pc, last_line, held_line, flushed_after, rx2,
                   main_pc, consumed>>
    /\ UNCHANGED <<presenceVars, fnVars>>

\* variant: the send does not wait for room in the channel
IngestSendUnbounded ==
    /\ ing_pc = "send"
    /\ rx' = Append(rx, ing_line[1])
    /\ ing_line' = None
    /\ ing_pc' = "next"
    /\ UNCHANGED <<lines_read, reasm_pc, last_line, held_line, flushed_after,
                   rx2, main_pc, consumed>>
    /\ UNCHANGED <<presenceVars, fnVars>>

\* tx.send(line).await: waits while the channel is full
IngestSend ==
    /\ ing_pc = "send"
    /\ Len(rx) < ChannelCap
    /\ rx' = Append(rx, ing_line[1])
    /\ ing_line' = None
    /\ ing_pc' = "next"
    /\ UNCHANGED <<lines_read, reasm_pc, last_line, held_line, flushed_after,
                   rx2, main_pc, consumed>>
    /\ UNCHANGED <<presenceVars, fnVars>>

\* lines.next_line() returned Ok(None) or Err: the task ends and drops tx
IngestEnd ==
    /\ ing_pc = "next"
    /\ ing_pc' = "done"
    /\ UNCHANGED <<ing_line, lines_read, rx, reasm_pc, last_line, held_line,
                   flushed_after, rx2, main_pc, consumed>>
    /\ UNCHANGED <<presenceVars, fnVars>>

\* timeout(1 ms, rx.recv()) returned Err(Elapsed) with a buffer: the channel
\* is empty and open.  (Without a buffer the iteration changes nothing.)
ReasmTimeout ==
    /\ reasm_pc = "recv"
    /\ rx = <<>>
    /\ ing_pc # "done"
    /\ last_line # None
    /\ reasm_pc' = "flush"
    /\ UNCHANGED <<ing_pc, ing_line, lines_read, rx, last_line, held_line,
                   flushed_after, rx2, main_pc, consumed>>
    /\ UNCHANGED <<presenceVars, fnVars>>

\* variant: the buffer is kept after the timeout branch has sent it
ReasmFlushKeepsBuffer ==
    /\ reasm_pc = "flush"
    /\ Len(rx2) < ChannelCap
    /\ rx2' = Append(rx2, last_line[1])
    /\ flushed_after' =
          flushed_after \cup {last_line[1].ids[Len(last_line[1].ids)]}
    /\ reasm_pc' = "recv"
    /\ UNCHANGED <<ing_pc, ing_line, lines_read, rx, last_line, held_line,
                   main_pc, consumed>>
    /\ UNCHANGED <<presenceVars, fnVars>>

\* tx2.send(ll.clone()).await of the timeout branch, then last_line = None
ReasmFlushSend ==
    /\ reasm_pc = "flush"
    /\ Len(rx2) < ChannelCap
    /\ rx2' = Append(rx2, last_line[1])
    /\ flushed_after' =
          flushed_after \cup {last_line[1].ids[Len(last_line[1].ids)]}
    /\ last_line' = None
    /\ reasm_pc' = "recv"
    /\ UNCHANGED <<ing_pc, ing_line, lines_read, rx, held_line, main_pc,
                   consumed>>
    /\ UNCHANGED <<presenceVars, fnVars>>

\* timeout(1 ms, rx.recv()) returned Ok(Some(line))
ReasmRecv ==
    /\ reasm_pc = "recv"
    /\ rx # <<>>
    /\ rx' = Tail(rx)
    /\ IF last_line # None
       THEN IF IsContinuation(Head(rx).line)
            THEN /\ last_line' = Some(AppendToBuffer(last_line[1], Head(rx)))
                 /\ UNCHANGED <<reasm_pc, held_line>>
            ELSE /\ reasm_pc' = "emit"
                 /\ held_line' = Some(Head(rx))
                 /\ UNCHANGED last_line
       ELSE /\ last_line' = Some(StartBuffer(Head(rx)))
            /\ UNCHANGED <<reasm_pc, held_line>>
    /\ UNCHANGED <<ing_pc, ing_line, lines_read, flushed_after, rx2, main_pc,
                   consumed>>
    /\ UNCHANGED <<presenceVars, fnVars>>

\* tx2.send(ll.clone()).await of the non-continuation branch, then
\* last_line = Some(line)
ReasmEmitSend ==
    /\ reasm_pc = "emit"
    /\ Len(rx2) < ChannelCap
    /\ rx2' = Append(rx2, EmitAndRestart(last_line[1], held_line[1]).send)
    /\ last_line' = Some(EmitAndRestart(last_line[1], held_line[1]).keep)
    /\ held_line' = None
    /\ reasm_pc' = "recv"
    /\ UNCHANGED <<ing_pc, ing_line, lines_read, rx, flushed_after, main_pc,
                   consumed>>
    /\ UNCHANGED <<presenceVars, fnVars>>

\* variant: Ok(None) is handled like a timeout without a buffer
ReasmIgnoresClose ==
    /\ reasm_pc = "recv"
    /\ rx = <<>>
    /\ ing_pc = "done"
    /\ UNCHANGED vars

\* timeout(1 ms, rx.recv()) returned Ok(None): tx is dropped and the channel
\* is empty; `_ => break` ends the task, which drops tx2 and last_line
ReasmClosed ==
    /\ reasm_pc = "recv"
    /\ rx = <<>>
    /\ ing_pc = "done"
    /\ reasm_pc' = "done"
    /\ UNCHANGED <<ing_pc, ing_line, lines_read, rx, last_line, held_line,
                   flushed_after, rx2, main_pc, consumed>>
    /\ UNCHANGED <<presenceVars, fnVars>>

\* variant: the main loop receives only after the reassembly task has ended
MainRecvAfterJoin ==
    /\ main_pc = "loop"
    /\ rx2 # <<>>
    /\ reasm_pc = "done"
    /\ consumed' = Append(consumed, Head(rx2))
    /\ rx2' = Tail(rx2)
    /\ UNCHANGED <<ing_pc, ing_line, lines_read, rx, reasm_pc, last_line,
                   held_line, flushed_after, main_pc>>
    /\ UNCHANGED <<presenceVars, fnVars>>

\* rx2.recv().await returned Some(line): one iteration of the main loop
MainRecv ==
    /\ main_pc = "loop"
    /\ rx2 # <<>>
    /\ consumed' = Append(consumed, Head(rx2))
    /\ rx2' = Tail(rx2)
    /\ UNCHANGED <<ing_pc, ing_line, lines_read, rx, reasm_pc, last_line,
                   held_line, flushed_after, main_pc>>
    /\ UNCHANGED <<presenceVars, fnVars>>

\* rx2.recv().await returned None: tx2 is dropped and the channel is empty
MainLoopEnd ==
    /\ main_pc = "loop"
    /\ rx2 = <<>>
    /\ reasm_pc = "done"
    /\ main_pc' = "join"
    /\ UNCHANGED <<ing_pc, ing_line, lines_read, rx, reasm_pc, last_line,
                   held_line, flushed_after, rx2, consumed>>
    /\ UNCHANGED <<presenceVars, fnVars>>

\* join_handle.await?
MainJoin ==
    /\ main_pc = "join"
    /\ ing_pc = "done"
    /\ main_pc' = "join2"
    /\ UNCHANGED <<ing_pc, ing_line, lines_read, rx, reasm_pc, last_line,
                   held_line, flushed_after, rx2, consumed>>
    /\ UNCHANGED <<presenceVars, fnVars>>

\* join_handle2.await?
MainJoin2 ==
    /\ main_pc = "join2"
    /\ reasm_pc = "done"
    /\ main_pc' = "done"
    /\ UNCHANGED <<ing_pc, ing_line, lines_read, rx, reasm_pc, last_line,
                   held_line, flushed_after, rx2, consumed>>
    /\ UNCHANGED <<presenceVars, fnVars>>

ReasmStep ==
    \/ ReasmRecv
    \/ ReasmFlushSend
    \/ ReasmEmitSend
    \/ ReasmClosed

MainStep == MainRecv \/ MainLoopEnd \/ MainJoin \/ MainJoin2

NextPipe ==
    \/ IngestNext
    \/ IngestSend
    \/ IngestEnd
    \/ ReasmTimeout
    \/ ReasmStep
    \/ MainStep

SpecPipe == Init /\ [][NextPipe]_vars

\* tokio polls every task that can make progress: a send, a receive or a
\* join that stays possible is eventually carried out.  Nothing is assumed
\* of the source or of the timer.
SpecPipeFair ==
    /\ Init
    /\ [][NextPipe]_vars
    /\ WF_vars(IngestSend)
    /\ WF_vars(ReasmStep)
    /\ WF_vars(MainStep)

----------------------------------------------------------------------------
(* The pipeline under load.  The source has delivered 2 * ChannelCap heads *)
(* "A" faster than the main loop consumed them: the reassembly task has    *)
(* sent the first ChannelCap - 1 of them, holds the next in its buffer,    *)
(* and the other ChannelCap lines fill the first channel.                  *)

LoadedLines == 2 * ChannelCap

PipeLoaded ==
    /\ ing_pc = "next"
    /\ ing_line = None
    /\ lines_read = [i \in 1..LoadedLines |-> <<"A">>]
    /\ rx = [i \in 1..ChannelCap |-> [n |-> ChannelCap + i, line |-> <<"A">>]]
    /\ reasm_pc = "recv"
    /\ last_line = Some(StartBuffer([n |-> ChannelCap, line |-> <<"A">>]))
    /\ held_line = None
    /\ flushed_after = {}
    /\ rx2 = [i \in 1..(ChannelCap - 1) |->
                StartBuffer([n |-> i, line |-> <<"A">>])]
    /\ main_pc = "loop"
    /\ consumed = <<>>

\* lines.next_line() returned Ok(Some(line)), for at most MaxBurst more lines
IngestNextLoaded ==
    /\ ing_pc = "next"
    /\ Len(lines_read) < LoadedLines + MaxBurst
    /\ \E l \in RawLines :
          /\ ing_line' = Some([n |-> Len(lines_read) + 1, line |-> l])
          /\ lines_read' = Append(lines_read, l)
    /\ ing_pc' = "send"
    /\ UNCHANGED <<rx, reasm_pc, last_line, held_line, flushed_after, rx2,
                   main_pc, consumed>>
    /\ UNCHANGED <<presenceVars, fnVars>>

InitLoaded == PresenceInit /\ PipeLoaded /\ FnIdle

NextLoaded ==
    \/ IngestNextLoaded
    \/ IngestSend
    \/ IngestEnd
    \/ ReasmTimeout
    \/ ReasmStep
    \/ MainStep

SpecLoaded == InitLoaded /\ [][NextLoaded]_vars

\* tokio::time::timeout: while rx.recv() stays pending, the 1 ms timer
\* elapses
SpecPipeTimer == SpecPipeFair /\ WF_vars(ReasmTimeout)

----------------------------------------------------------------------------
(* The pure functions, each applied once to an input string.               *)

\* arguments of volume_and_message: with and without a prefix, two
\* prefixes, near misses
VolumeInputs ==
    {
      <<>>,
      <<"h","i">>,
      <<"w","h","i","s","p","e","r","s",":"," ">>,
      <<"w","h","i","s","p","e","r","s",":"," ","h","i">>,
      <<"s","h","o","u","t","s",":"," ","h","i">>,
      <<"s","h","o","u","t","s",":"," ">>,
      <<"w","h","i","s","p","e","r","s",":"," ","s","h","o","u","t","s",":"," ","x">>,
      <<"s","h","o","u","t","s",":"," ","w","h","i","s","p","e","r","s",":"," ","x">>,
      <<"w","h","i","s","p","e","r","s",":","h","i">>,
      <<"W","h","i","s","p","e","r","s",":"," ","h","i">>,
      <<" ","w","h","i","s","p","e","r","s",":"," ","h","i">>,
      <<"w","h","i","s","p","e","r">>,
      <<"s","h","o","u","t","s",":"," "," ","h","i">>,
      <<"s","a","y","s",":"," ","h","i">>
    }

\* what a line starts with: a timestamp, nothing, or a bracket that is no
\* timestamp (month 13, 29 February 2023, a colon without seconds, a
\* two-digit year, no closing bracket); bracket says which
LineBrackets ==
    {
      [s |-> <<"[","2","0","2","4","/","0","1","/","0","2"," ","1","0",":",
          "0","0","]">>,
       bracket |-> "timestamp"],
      [s |-> <<"[","2","0","2","4","/","0","2","/","2","9"," ","2","3",":",
          "5","9",":","5","9","]">>,
       bracket |-> "timestamp"],
      [s |-> <<>>,
       bracket |-> "none"],
      [s |-> <<"[","2","0","2","4","/","1","3","/","0","2"," ","1","0",":",
          "0","0","]">>,
       bracket |-> "invalid"],
      [s |-> <<"[","2","0","2","3","/","0","2","/","2","9"," ","1","0",":",
          "0","0","]">>,
       bracket |-> "invalid"],
      [s |-> <<"[","2","0","2","4","/","0","1","/","0","2"," ","1","0",":",
          "0","0",":","]">>,
       bracket |-> "invalid"],
      [s |-> <<"[","2","4","/","0","1","/","0","2"," ","1","0",":","0","0",
          "]">>,
       bracket |-> "invalid"],
      [s |-> <<"[","2","0","2","4","/","0","1","/","0","2"," ","1","0",":",
          "0","0">>,
       bracket |-> "invalid"],
      [s |-> PlaceholderTimestamp, bracket |-> "placeholder"]
    }

\* what follows: the text, and the event and avatar message it is written as
LineBodies ==
    {
      [s |-> <<>>,
       event |-> "OtherMessage", message |-> "-"],
      [s |-> <<"c">>,
       event |-> "OtherMessage", message |-> "-"],
      [s |-> <<"p","l","a","i","n"," ","t","e","x","t">>,
       event |-> "OtherMessage", message |-> "-"],
      [s |-> <<"S","e","c","o","n","d"," ","L","i","f","e">>,
       event |-> "OtherMessage", message |-> "-"],
      [s |-> <<"S","e","c","o","n","d"," ","L","i","f","e",":"," ","x">>,
       event |-> "SystemMessage", message |-> "-"],
      [s |-> <<"S","e","c","o","n","d"," ","L","i","f","e",":"," ">>,
       event |-> "SystemMessage", message |-> "-"],
      [s |-> <<"J","o",":"," ","h","i">>,
       event |-> "AvatarLine", message |-> "Chat"],
      [s |-> <<"J","o",":"," ","w","h","i","s","p","e","r","s",":"," ","h",
          "i">>,
       event |-> "AvatarLine", message |-> "Chat"],
      [s |-> <<"J","o",":","h","i">>,
       event |-> "AvatarLine", message |-> "Chat"],
      [s |-> <<"J","o",":"," ","i","s"," ","o","n","l","i","n","e",".">>,
       event |-> "AvatarLine", message |-> "CameOnline"],
      [s |-> <<"J","o",":"," ","i","s"," ","o","f","f","l","i","n","e",".">>,
       event |-> "AvatarLine", message |-> "WentOffline"],
      [s |-> <<"J","o",":"," ","e","n","t","e","r","e","d"," ","c","h","a",
          "t"," ","r","a","n","g","e"," ","(","1","2",".","5"," ","m",")",
              ".">>,
       event |-> "AvatarLine", message |-> "EnteredArea"],
      [s |-> <<"J","o",":"," ","e","n","t","e","r","e","d"," ","c","h","a",
          "t"," ","r","a","n","g","e",".">>,
       event |-> "AvatarLine", message |-> "EnteredArea"],
      [s |-> <<"J","o",":"," ","e","n","t","e","r","e","d"," ","t","h","e",
          " ","r","e","g","i","o","n",".">>,
       event |-> "AvatarLine", message |-> "EnteredArea"],
      [s |-> <<"J","o",":"," ","e","n","t","e","r","e","d"," ","r","e","g",
          "i","o","n",".">>,
       event |-> "AvatarLine", message |-> "EnteredArea"],
      [s |-> <<"J","o",":"," ","e","n","t","e","r","e","d"," ","d","r","a",
          "w"," ","d","i","s","t","a","n","c","e"," ","(","1",".","0"," ","m",
              ")",".">>,
       event |-> "AvatarLine", message |-> "EnteredArea"],
      [s |-> <<"J","o",":"," ","e","n","t","e","r","e","d"," ","c","h","a",
          "t"," ","r","a","n","g","e"," ","(","1","2"," ","m",")",".">>,
       event |-> "AvatarLine", message |-> "Chat"],
      [s |-> <<"J","o",":"," ","l","e","f","t"," ","c","h","a","t"," ","r",
          "a","n","g","e",".">>,
       event |-> "AvatarLine", message |-> "LeftArea"],
      [s |-> <<"J","o",":"," ","l","e","f","t"," ","c","h","a","t"," ","r",
          "a","n","g","e">>,
       event |-> "AvatarLine", message |-> "Chat"],
      [s |-> <<"J","o",":"," ","/","m","e"," ","s","h","o","u","t","s",":",
          " ","h","i">>,
       event |-> "AvatarLine", message |-> "Emote"]
    }

LineInputs ==
    {[f |-> "sl_chat_log_line_parser", s |-> b.s \o sep \o e.s,
      bracket |-> b.bracket, event |-> e.event, message |-> e.message] :
        b \in LineBrackets, sep \in {<<>>, <<" ">>}, e \in LineBodies}

\* names to greet; one of them contains "and"
GreetedNames ==
    { <<"j","o","h","n">>, <<"p","a","u","l">>,
      <<"m","a","r","y">>, <<"s","a","n","d","y">> }

\* ", ", " and ", " und " and a newline between two names
NameSeparators ==
    { <<","," ">>, <<" ","a","n","d"," ">>,
      <<" ","u","n","d"," ">>, <<"\n">> }

GreetingWordSet == {GreetingWords[k] : k \in DOMAIN GreetingWords}

\* a greeting word, a space and one, two or three names with separators;
\* names is the list of names the text was built from
GreetingInputs ==
    {[f |-> "welcome_greeting_parser", s |-> w \o <<" ">> \o a,
      names |-> <<a>>] : w \in GreetingWordSet, a \in GreetedNames}
    \cup {[f |-> "welcome_greeting_parser",
           s |-> w \o <<" ">> \o a \o x \o b, names |-> <<a, b>>] :
             w \in GreetingWordSet, a \in GreetedNames,
             b \in GreetedNames, x \in NameSeparators}
    \cup {[f |-> "welcome_greeting_parser",
           s |-> <<"h","e","l","l","o"," ","j","o","h","n">>
                   \o x \o <<"p","a","u","l">> \o y
                   \o <<"m","a","r","y">>,
           names |-> << <<"j","o","h","n">>,
                        <<"p","a","u","l">>,
                        <<"m","a","r","y">> >>] :
             x \in NameSeparators, y \in NameSeparators}

FnInputs ==
    {[f |-> "volume_and_message", s |-> x] : x \in VolumeInputs}
    \cup LineInputs
    \cup GreetingInputs

Call_volume_and_message ==
    /\ fn_in[1].f = "volume_and_message"
    /\ fn_out = None
    /\ fn_out' = Some(volume_and_message(fn_in[1].s))
    /\ UNCHANGED <<fn_in, presenceVars, pipeVars>>

Call_sl_chat_log_line_parser ==
    /\ fn_in[1].f = "sl_chat_log_line_parser"
    /\ fn_out = None
    /\ fn_out' = Some(sl_chat_log_line_parser(fn_in[1].s))
    /\ UNCHANGED <<fn_in, presenceVars, pipeVars>>

Call_welcome_greeting_parser ==
    /\ fn_in[1].f = "welcome_greeting_parser"
    /\ fn_out = None
    /\ fn_out' = Some(welcome_greeting_parser(fn_in[1].s))
    /\ UNCHANGED <<fn_in, presenceVars, pipeVars>>

InitFn ==
    /\ PresenceInit
    /\ PipeIdle
    /\ \E x \in FnInputs : fn_in = Some(x)
    /\ fn_out = None

NextFn ==
    \/ Call_volume_and_message
    \/ Call_sl_chat_log_line_parser
    \/ Call_welcome_greeting_parser

SpecFn == InitFn /\ [][NextFn]_vars

----------------------------------------------------------------------------
(* Properties of the main loop (Spec).  A step with parsed_line' # None is *)
(* one iteration: the unprimed variables are the state before it, the      *)
(* primed ones the state after it.                                         *)

\* handles held in the map nh
Pending(nh) == {nh[k] : k \in DOMAIN nh}

\* C1: a timestamped EnteredArea(ChatRange) line for X calls show() if and
\* only if lower-cased X has no last_seen record or the line's timestamp is
\* more than 5 seconds after the record.
C1_Debounce ==
    [][(/\ parsed_line' # None
        /\ IsEnteredChatRange(parsed_line'[1])
        /\ parsed_line'[1].timestamp # None)
       => LET pl == parsed_line'[1]
              key == to_lowercase(pl.name)
          IN  show_called' <=>
                \/ key \notin DOMAIN last_seen_in_chat_range
                \/ pl.timestamp[1] - last_seen_in_chat_range[key] > 5]_vars

\* An entry at second 10 raised a second notification, which is pending.
C1_Witness ==
    /\ parsed_line # None
    /\ IsEnteredChatRange(parsed_line[1])
    /\ parsed_line[1].timestamp = Some(10)
    /\ show_called
    /\ to_lowercase(parsed_line[1].name) \in DOMAIN notify_handles
    /\ notify_handles[to_lowercase(parsed_line[1].name)] = 2
    /\ last_seen_in_chat_range[to_lowercase(parsed_line[1].name)] = 10

\* C2: an iteration on a line without a timestamp leaves the whole
\* last_seen map unchanged, whatever the line is.
C2_NoTimestampNoUpdate ==
    [][(parsed_line' # None /\ parsed_line'[1].timestamp = None)
       => last_seen_in_chat_range' = last_seen_in_chat_range]_vars

\* An untimestamped ChatRange entry of an actor that has a record.
C2_Witness ==
    /\ parsed_line # None
    /\ IsEnteredChatRange(parsed_line[1])
    /\ parsed_line[1].timestamp = None
    /\ to_lowercase(parsed_line[1].name) \in DOMAIN last_seen_in_chat_range

\* C7: a LeftArea(ChatRange) line for X, timestamped or not, closes the
\* handle pending for lower-cased X and removes it, leaves every other
\* pending handle alone and, if timestamped, sets last_seen of X.
C7_Left ==
    [][(parsed_line' # None /\ IsLeftChatRange(parsed_line'[1]))
       => LET pl == parsed_line'[1]
              key == to_lowercase(pl.name)
          IN  /\ key \notin DOMAIN notify_handles'
              /\ DOMAIN notify_handles' = (DOMAIN notify_handles) \ {key}
              /\ \A k \in DOMAIN notify_handles' :
                    notify_handles'[k] = notify_handles[k]
              /\ \A h \in 1..MaxHandles :
                    closed'[h] =
                      IF key \in DOMAIN notify_handles
                         /\ notify_handles[key] = h
                      THEN closed[h] + 1 ELSE closed[h]
              /\ pl.timestamp # None =>
                    /\ key \in DOMAIN last_seen_in_chat_range'
                    /\ last_seen_in_chat_range'[key] = pl.timestamp[1]]_vars

\* "Jo" left without a timestamp: the handle of "jo" is closed, the one of
\* "joan" is still pending.
C7_Witness ==
    /\ parsed_line # None
    /\ IsLeftChatRange(parsed_line[1])
    /\ parsed_line[1].name = <<"J","o">>
    /\ parsed_line[1].timestamp = None
    /\ DOMAIN notify_handles = { <<"j","o","a","n">> }
    /\ \E h \in 1..MaxHandles :
          h # notify_handles[<<"j","o","a","n">>] /\ closed[h] = 1

\* C8: no handle is closed twice; close() is called on a handle exactly in
\* the iteration on a left or chat line that takes it out of the map; a
\* closed handle is not in the map.
C8_CloseOnce ==
    [][\A h \in 1..MaxHandles :
          /\ closed'[h] <= 1
          /\ closed'[h] >= 1 => h \notin Pending(notify_handles')
          /\ closed'[h] # closed[h] <=>
                /\ h \in Pending(notify_handles)
                /\ h \notin Pending(notify_handles')
                /\ parsed_line' # None
                /\ \/ IsLeftChatRange(parsed_line'[1])
                   \/ IsChat(parsed_line'[1])]_vars

\* Both handles were handed out and each was closed once.
C8_Witness ==
    /\ next_handle = 2
    /\ closed[1] = 1
    /\ closed[2] = 1
    /\ notify_handles = EmptyMap

\* C9: a Chat line of the local avatar whose lower-cased text parses as a
\* greeting closes and removes the handle of every key that contains one of
\* the greeted tokens, keeps the others and changes no last_seen value; if
\* the text is no greeting nothing changes.
C9_Greeting ==
    [][(/\ parsed_line' # None
        /\ IsChat(parsed_line'[1])
        /\ parsed_line'[1].name = avatar_name)
       => \E g \in {welcome_greeting_parser(to_lowercase(parsed_line'[1].text))} :
          \E hit \in {{k \in DOMAIN notify_handles :
                         /\ g.ok
                         /\ \E i \in 1..Len(g.names) :
                               contains(k, g.names[i])}} :
              /\ DOMAIN notify_handles' = (DOMAIN notify_handles) \ hit
              /\ \A k \in DOMAIN notify_handles' :
                    notify_handles'[k] = notify_handles[k]
              /\ \A h \in 1..MaxHandles :
                    closed'[h] =
                      IF \E k \in hit : notify_handles[k] = h
                      THEN closed[h] + 1 ELSE closed[h]
              /\ last_seen_in_chat_range' = last_seen_in_chat_range
              /\ ~show_called']_vars

\* The local avatar said "hi an": the handle of "joan" is closed, the one of
\* "jo" is still pending.
C9_Witness ==
    /\ parsed_line # None
    /\ IsChat(parsed_line[1])
    /\ parsed_line[1].name = avatar_name
    /\ parsed_line[1].text = <<"h","i"," ","a","n">>
    /\ DOMAIN notify_handles = { <<"j","o">> }
    /\ \E h \in 1..MaxHandles :
          h # notify_handles[<<"j","o">>] /\ closed[h] = 1

\* C10: a timestamped Chat or Emote line of an actor other than the local
\* avatar sets the actor's last_seen to the line's timestamp at Whisper or
\* Say volume and leaves last_seen unchanged at Shout or RegionSay volume;
\* it neither shows nor closes a notification.
C10_Proximity ==
    [][(/\ parsed_line' # None
        /\ parsed_line'[1].ok
        /\ parsed_line'[1].event = "AvatarLine"
        /\ parsed_line'[1].message \in {"Chat", "Emote"}
        /\ parsed_line'[1].timestamp # None
        /\ parsed_line'[1].name # avatar_name)
       => LET pl == parsed_line'[1]
              key == to_lowercase(pl.name)
          IN  /\ pl.volume \in {"Whisper", "Say"} =>
                    last_seen_in_chat_range' =
                      Insert(last_seen_in_chat_range, key, pl.timestamp[1])
              /\ pl.volume \in {"Shout", "RegionSay"} =>
                    last_seen_in_chat_range' = last_seen_in_chat_range
              /\ ~show_called'
              /\ notify_handles' = notify_handles
              /\ closed' = closed]_vars

\* "Jo" shouted at second 7 and the record of "jo" is still the older one.
C10_Witness ==
    /\ parsed_line # None
    /\ IsChat(parsed_line[1])
    /\ parsed_line[1].name = <<"J","o">>
    /\ parsed_line[1].volume = "Shout"
    /\ parsed_line[1].timestamp = Some(7)
    /\ <<"j","o">> \in DOMAIN last_seen_in_chat_range
    /\ last_seen_in_chat_range[<<"j","o">>] = 2

----------------------------------------------------------------------------
(* Properties of the pipeline (SpecPipe, SpecPipeFair). *)

\* the entries the reassembly task has sent, oldest first
Emitted == consumed \o rx2

\* the entries sent and the entry being built
Started ==
    {Emitted[i] : i \in 1..Len(Emitted)}
    \cup (IF last_line # None THEN {last_line[1]} ELSE {})

\* the raw line at position i starts with a space or is empty
ContinuationAt(i) == lines_read[i] = <<>> \/ Head(lines_read[i]) = " "

\* a line that is no continuation line was read before position i
HeadBefore(i) == \E j \in 1..(i - 1) : ~ContinuationAt(j)

\* C3 as stated: a continuation line that follows a head line is never the
\* first line of an entry, whatever the timeouts do.
C3_NeverSplit ==
    \A e \in Started : ~(ContinuationAt(e.ids[1]) /\ HeadBefore(e.ids[1]))

\* C3: an entry is a run of consecutive raw lines, and a continuation line
\* that follows a head line is the first line of an entry only if a
\* quiet-period timeout flushed the buffer right after the line before it.
C3_SplitOnlyByTimeout ==
    \A e \in Started :
        /\ \A k \in 2..Len(e.ids) :
              /\ e.ids[k] = e.ids[k - 1] + 1
              /\ ContinuationAt(e.ids[k])
        /\ (ContinuationAt(e.ids[1]) /\ HeadBefore(e.ids[1]))
              => (e.ids[1] - 1) \in flushed_after

\* The main loop received a head line with its continuation line as one
\* entry and, after a timeout, a continuation line as an entry of its own.
C3_Witness ==
    /\ \E i \in 1..Len(consumed) :
          /\ Len(consumed[i].ids) >= 2
          /\ ~ContinuationAt(consumed[i].ids[1])
    /\ \E i \in 1..Len(consumed) :
          /\ ContinuationAt(consumed[i].ids[1])
          /\ HeadBefore(consumed[i].ids[1])

\* C4: the main loop has received the entries in the order in which they
\* were sent, and that is the order in which their raw lines were read:
\* along the entries received and then the entries queued, the line
\* positions only grow.
C4_Order ==
    /\ \A i, j \in 1..Len(Emitted) :
          i < j => \A a \in 1..Len(Emitted[i].ids) :
                      \A b \in 1..Len(Emitted[j].ids) :
                          Emitted[i].ids[a] < Emitted[j].ids[b]
    /\ \A i \in 1..Len(Emitted) :
          \A a, b \in 1..Len(Emitted[i].ids) :
              a < b => Emitted[i].ids[a] < Emitted[i].ids[b]
    /\ last_line # None =>
          \A i \in 1..Len(Emitted) :
              Emitted[i].ids[1] < last_line[1].ids[1]

\* The main loop received three entries.
C4_Witness ==
    /\ Len(consumed) >= 3
    /\ consumed[1].ids[1] = 1

\* C5 as stated: when the reassembly task has stopped, no buffer is left
\* behind.
C5_FlushAtEnd == reasm_pc = "done" => last_line = None

\* C6: once the source has ended, the pipeline terminates: the channels
\* are drained, the three stages have stopped and main has joined both
\* tasks.
C6_Shutdown ==
    (ing_pc = "done") ~>
        (/\ main_pc = "done"
         /\ reasm_pc = "done"
         /\ rx = <<>>
         /\ rx2 = <<>>)

\* main has joined both tasks after receiving at least two entries.
C6_Witness ==
    /\ main_pc = "done"
    /\ Len(consumed) >= 2

----------------------------------------------------------------------------
(* Case of avatar names *)

IsLowerCase(s) == s = to_lowercase(s)

CaseVariants(name) == {n \in AvatarNames : to_lowercase(n) = to_lowercase(name)}

\* C11: every key of last_seen_in_chat_range and of notify_handles is
\* lower-case in every state, and an iteration on an avatar line leaves the
\* same maps, closes the same handles and calls show() the same way for
\* every case variant of the line's name.
C11_CaseInsensitive ==
    [][ /\ \A k \in DOMAIN last_seen_in_chat_range' : IsLowerCase(k)
        /\ \A k \in DOMAIN notify_handles' : IsLowerCase(k)
        /\ (parsed_line' # None /\ parsed_line'[1].event = "AvatarLine")
           => \A n \in CaseVariants(parsed_line'[1].name) :
                 \E sinkOk \in BOOLEAN :
                 \E st \in {LoopBody([parsed_line'[1] EXCEPT !.name = n],
                                     LoopState, sinkOk)} :
                    /\ last_seen_in_chat_range' = st.ls
                    /\ notify_handles' = st.nh
                    /\ closed' = st.closed
                    /\ show_called' = st.shown
      ]_vars

----------------------------------------------------------------------------
(* Failed parses *)

\* C12: an iteration on an entry whose parse failed changes neither map,
\* calls neither show() nor close(), and the loop can go on to the next
\* entry.
C12_ParseFailure ==
    /\ [][ (parsed_line' # None /\ ~parsed_line'[1].ok)
           => /\ UNCHANGED <<last_seen_in_chat_range, notify_handles, closed,
                             next_handle>>
              /\ ~show_called' ]_vars
    /\ []((parsed_line # None /\ ~parsed_line[1].ok) => ENABLED NextIteration)

\* a parse failed while a record and an open notification exist
C12_Witness ==
    /\ parsed_line # None
    /\ ~parsed_line[1].ok
    /\ DOMAIN last_seen_in_chat_range # {}
    /\ DOMAIN notify_handles # {}

----------------------------------------------------------------------------
(* Persistence *)

\* C13: every iteration that writes a timestamp to last_seen_in_chat_range
\* also hands the pair (lower-cased name, timestamp) to the store.
C13_Persist ==
    [][ \A k \in DOMAIN last_seen_in_chat_range' :
           (k \notin DOMAIN last_seen_in_chat_range
            \/ last_seen_in_chat_range[k] # last_seen_in_chat_range'[k])
           => <<k, last_seen_in_chat_range'[k]>> \in persisted' ]_vars

----------------------------------------------------------------------------
(* Channels *)

\* C14: each channel holds at most 16 items in every state; a step changes
\* a channel only by taking its head or by appending the item its producer
\* is sending, appends only below the capacity, and a producer leaves its
\* send only by appending: with a full channel it keeps waiting with its
\* item, and nothing is dropped or overwritten.
C14_Bounded ==
    /\ [](Len(rx) <= 16 /\ Len(rx2) <= 16)
    /\ [][ /\ \/ rx' = rx
              \/ rx # <<>> /\ rx' = Tail(rx)
              \/ Len(rx) < 16 /\ ing_pc = "send"
                 /\ rx' = Append(rx, ing_line[1])
           /\ (ing_pc = "send" /\ ing_pc' # "send")
              => rx' = Append(rx, ing_line[1])
           /\ \/ rx2' = rx2
              \/ rx2 # <<>> /\ rx2' = Tail(rx2)
              \/ Len(rx2) < 16 /\ reasm_pc \in {"flush", "emit"}
                 /\ rx2' = Append(rx2, last_line[1])
           /\ (reasm_pc \in {"flush", "emit"} /\ reasm_pc' # reasm_pc)
              => rx2' = Append(rx2, last_line[1])
         ]_vars

\* both channels are full and both producers wait with an item to send
C14_Witness ==
    /\ Len(rx) = ChannelCap
    /\ ing_pc = "send"
    /\ Len(rx2) = ChannelCap
    /\ reasm_pc = "emit"

----------------------------------------------------------------------------
(* Quiet-period flush *)

\* C15: the send of the timeout branch appends the buffer to the second
\* channel and empties the buffer; the second channel only ever grows by
\* the buffer, so without a buffer nothing is emitted; an entry leaves the
\* buffer only by being sent; no raw line is emitted twice; and a buffer
\* that is held is eventually emptied by a flush unless the stream ends
\* first: hence every buffered entry is eventually emitted.
C15_QuietFlush ==
    /\ [][ /\ (reasm_pc = "flush" /\ reasm_pc' = "recv")
              => rx2' = Append(rx2, last_line[1]) /\ last_line' = None
           /\ Len(rx2') > Len(rx2)
              => last_line # None /\ rx2' = Append(rx2, last_line[1])
           /\ ( /\ last_line # None
                /\ \/ last_line' = None
                   \/ last_line'[1].ids[1] # last_line[1].ids[1] )
              => rx2' = Append(rx2, last_line[1])
         ]_vars
    /\ [](reasm_pc = "flush" => last_line # None)
    /\ [](\A i, j \in DOMAIN Emitted :
             i # j => Emitted[i].ids[1] # Emitted[j].ids[1])
    /\ (last_line # None) ~> (last_line = None \/ ing_pc = "done")

\* a timeout has flushed the buffer: the entry is emitted, the buffer is
\* empty and the stream is still open
C15_Witness ==
    /\ flushed_after # {}
    /\ last_line = None
    /\ reasm_pc = "recv"
    /\ ing_pc # "done"
    /\ \E i \in DOMAIN Emitted :
          Emitted[i].ids[Len(Emitted[i].ids)] \in flushed_after

----------------------------------------------------------------------------
(* Runs of a head line and its continuation lines *)

\* the raw line at position i starts with a whitespace character or is empty
WhitespaceAt(i) == lines_read[i] = <<>> \/ IsWhitespace(Head(lines_read[i]))

\* the raw lines at positions a..b joined by newlines
RECURSIVE JoinLines(_, _)
JoinLines(a, b) ==
    IF a = b THEN lines_read[a]
    ELSE JoinLines(a, b - 1) \o <<"\n">> \o lines_read[b]

\* the reassembly task has taken the raw line at position i into an entry
Reassembled(i) == \E e \in Started : \E k \in DOMAIN e.ids : e.ids[k] = i

\* Cont(i) tells which raw lines count as continuation lines.  For every
\* head at h followed by continuation lines up to position l and a head at
\* l + 1 that the reassembly task has taken, with no timeout flush after
\* any of h..l: exactly one entry was emitted from the lines h..l, it is
\* those lines joined by newlines, and the line l + 1 starts the next
\* entry.  And an entry that no timeout flushed is emitted only once the
\* reassembly task has received a following head.
RunIsOneEntry(Cont(_)) ==
    /\ \A h \in 1..Len(lines_read) : \A l \in h..(Len(lines_read) - 1) :
          ( /\ ~Cont(h)
            /\ \A i \in (h + 1)..l : Cont(i)
            /\ ~Cont(l + 1)
            /\ Reassembled(l + 1)
            /\ flushed_after \cap (h..l) = {} )
          => /\ Cardinality({i \in DOMAIN Emitted :
                                Emitted[i].ids[1] \in h..l}) = 1
             /\ \E i \in DOMAIN Emitted :
                   /\ Emitted[i].ids = [k \in 1..(l - h + 1) |-> h + k - 1]
                   /\ Emitted[i].text = JoinLines(h, l)
             /\ \E e \in Started : e.ids[1] = l + 1
    /\ \A i \in DOMAIN Emitted :
          LET last == Emitted[i].ids[Len(Emitted[i].ids)]
          IN  last \notin flushed_after
              => /\ last < Len(lines_read)
                 /\ ~Cont(last + 1)
                 /\ Reassembled(last + 1)

\* C16 as stated: a continuation line is one that starts with a whitespace
\* character or is empty.
C16_RunWhitespace == RunIsOneEntry(WhitespaceAt)

\* C16: a continuation line is one that starts with a space or is empty;
\* with no timeout in between, a head, its continuation lines and the next
\* head give exactly one entry, the lines joined by newlines, emitted when
\* the next head arrives, and that head starts the new buffer.
C16_Run == RunIsOneEntry(ContinuationAt)

\* a head and two continuation lines were emitted as one entry when the
\* fourth line, a head, arrived: no timeout has fired
C16_Witness ==
    /\ flushed_after = {}
    /\ \E i \in DOMAIN Emitted : Emitted[i].ids = <<1, 2, 3>>
    /\ last_line # None
    /\ last_line[1].ids = <<4>>

----------------------------------------------------------------------------
(* Pure functions *)

\* C18: volume_and_message returns Whisper and the rest for an argument
\* that starts with "whispers: ", else Shout and the rest for one that
\* starts with "shouts: ", else Say and the argument itself; it never
\* returns RegionSay and it takes off one prefix only: prefix and returned
\* message make up the argument.
C18_Volume ==
    (fn_out # None /\ fn_in[1].f = "volume_and_message")
    => LET s == fn_in[1].s
           v == fn_out[1][1]
           m == fn_out[1][2]
       IN  /\ v \in {"Whisper", "Say", "Shout"}
           /\ JustAt(s, 1, WhispersPrefix) => v = "Whisper"
           /\ (~JustAt(s, 1, WhispersPrefix) /\ JustAt(s, 1, ShoutsPrefix))
              => v = "Shout"
           /\ (~JustAt(s, 1, WhispersPrefix) /\ ~JustAt(s, 1, ShoutsPrefix))
              => v = "Say"
           /\ v = "Whisper" => s = WhispersPrefix \o m
           /\ v = "Shout" => s = ShoutsPrefix \o m
           /\ v = "Say" => s = m

\* "whispers: shouts: x" gave Whisper and "shouts: x"
C18_Witness ==
    /\ fn_out # None
    /\ fn_in[1].f = "volume_and_message"
    /\ fn_out[1][1] = "Whisper"
    /\ JustAt(fn_out[1][2], 1, ShoutsPrefix)

\* C17 as stated: the parse of a line never fails, and a line that is
\* written as no more specific event gives OtherMessage.
C17_NeverFails ==
    (fn_out # None /\ fn_in[1].f = "sl_chat_log_line_parser")
    => /\ fn_out[1].ok
       /\ fn_in[1].event = "OtherMessage" => fn_out[1].event = "OtherMessage"

\* C17: the parse succeeds exactly for the lines that start with a
\* timestamp bracket holding a date and time or with the placeholder (the
\* timestamp is Some for the first, None for the second); then the rest is
\* parsed as the event it is written as, and as OtherMessage when it is
\* written as no more specific event.  Any other line fails to parse.
C17_Fallback ==
    (fn_out # None /\ fn_in[1].f = "sl_chat_log_line_parser")
    => /\ fn_out[1].ok <=> fn_in[1].bracket \in {"timestamp", "placeholder"}
       /\ fn_out[1].ok
          => /\ fn_out[1].timestamp # None <=> fn_in[1].bracket = "timestamp"
             /\ fn_out[1].event = fn_in[1].event
             /\ fn_out[1].message = fn_in[1].message

\* a timestamped line with a text that is no event gave OtherMessage
C17_Witness ==
    /\ fn_out # None
    /\ fn_in[1].f = "sl_chat_log_line_parser"
    /\ fn_in[1].bracket = "timestamp"
    /\ fn_out[1].ok
    /\ fn_out[1].timestamp # None
    /\ fn_out[1].event = "OtherMessage"

\* C19: for a greeting word followed by names that are separated by ",",
\* "and", "und" or a newline, welcome_greeting_parser succeeds and returns
\* exactly those names, trimmed and in order.
C19_Names ==
    (fn_out # None /\ fn_in[1].f = "welcome_greeting_parser")
    => fn_out[1].ok /\ fn_out[1].names = fn_in[1].names

----------------------------------------------------------------------------
(* Entering the chat range *)

\* C20: an iteration on a timestamped EnteredArea(ChatRange) line always
\* writes the timestamp to last_seen under the lower-cased name and closes
\* nothing; it either records no handle, or it has called show(), the sink
\* has returned a new handle and that handle is recorded under the
\* lower-cased name; and after such a line, as after a failed show(), the
\* loop can go on.
C20_EnteredUpdates ==
    /\ [][(/\ parsed_line' # None
           /\ IsEnteredChatRange(parsed_line'[1])
           /\ parsed_line'[1].timestamp # None)
          => LET pl == parsed_line'[1]
                 key == to_lowercase(pl.name)
             IN  /\ key \in DOMAIN last_seen_in_chat_range'
                 /\ last_seen_in_chat_range'[key] = pl.timestamp[1]
                 /\ closed' = closed
                 /\ \/ /\ notify_handles' = notify_handles
                       /\ next_handle' = next_handle
                    \/ /\ show_called'
                       /\ next_handle' = next_handle + 1
                       /\ notify_handles' =
                             Insert(notify_handles, key, next_handle')
         ]_vars
    /\ []((parsed_line # None /\ IsEnteredChatRange(parsed_line[1]))
          => ENABLED NextIteration)

\* show() was called for a timestamped entry and failed: no handle is
\* recorded, the timestamp is
C20_Witness ==
    /\ parsed_line # None
    /\ IsEnteredChatRange(parsed_line[1])
    /\ parsed_line[1].timestamp # None
    /\ show_called
    /\ next_handle = 0
    /\ notify_handles = EmptyMap
    /\ to_lowercase(parsed_line[1].name) \in DOMAIN last_seen_in_chat_range
    /\ last_seen_in_chat_range[to_lowercase(parsed_line[1].name)]
          = parsed_line[1].timestamp[1]

----------------------------------------------------------------------------
(* Lines that are no chat-range transition *)

\* an area transition outside the chat range, an online or offline notice,
\* a system message or any other message
IsNoPresenceLine(pl) ==
    /\ pl.ok
    /\ \/ pl.event \in {"SystemMessage", "OtherMessage"}
       \/ /\ pl.event = "AvatarLine"
          /\ \/ pl.message \in {"CameOnline", "WentOffline"}
             \/ /\ pl.message \in {"EnteredArea", "LeftArea"}
                /\ pl.area \in {"DrawDistance", "Region"}

\* C21: an iteration on EnteredArea or LeftArea for DrawDistance or Region,
\* on CameOnline, WentOffline, a SystemMessage or an OtherMessage leaves
\* both maps unchanged, calls no show() and closes no handle.
C21_OnlyChatRange ==
    [][(parsed_line' # None /\ IsNoPresenceLine(parsed_line'[1]))
       => /\ UNCHANGED <<last_seen_in_chat_range, notify_handles, closed,
                         next_handle>>
          /\ ~show_called']_vars

\* a timestamped entry into the draw distance was processed while a record
\* and an open notification exist
C21_Witness ==
    /\ parsed_line # None
    /\ parsed_line[1].ok
    /\ parsed_line[1].message = "EnteredArea"
    /\ parsed_line[1].area = "DrawDistance"
    /\ parsed_line[1].timestamp # None
    /\ DOMAIN last_seen_in_chat_range # {}
    /\ DOMAIN notify_handles # {}

----------------------------------------------------------------------------
(* Open notifications *)

\* C22: every handle the sink has returned and that was not closed is the
\* handle tracked in notify_handles for some name, so no name has more than
\* one open notification.
C22_NoLeak ==
    \A h \in 1..next_handle :
        closed[h] = 0 => \E k \in DOMAIN notify_handles : notify_handles[k] = h

----------------------------------------------------------------------------
(* Entries without a timestamp *)

----------------------------------------------------------------------------
(* The local avatar *)

\* C24: an iteration on a Chat line whose name equals the local avatar's
\* name up to letter case does what the chat block does for the local
\* avatar's own name: the greeting is looked for and last_seen is left
\* unchanged.
C24_LocalAnyCase ==
    [][(/\ parsed_line' # None
        /\ IsChat(parsed_line'[1])
        /\ to_lowercase(parsed_line'[1].name) = to_lowercase(avatar_name))
       => /\ last_seen_in_chat_range' = last_seen_in_chat_range
          /\ \E st \in {ChatBlock([parsed_line'[1] EXCEPT !.name = avatar_name],
                                  LoopState)} :
                /\ notify_handles' = st.nh
                /\ closed' = st.closed]_vars

----------------------------------------------------------------------------
(* No loss, no duplication *)

\* the number of raw lines the reassembly task has received
Received == Len(lines_read) - Len(rx) - (IF ing_line # None THEN 1 ELSE 0)

\* the entries sent, then the buffer, then the line received while the
\* buffer is being sent (it becomes the buffer when the send returns)
Pieces ==
    Emitted
    \o (IF last_line # None THEN <<last_line[1]>> ELSE <<>>)
    \o (IF held_line # None THEN <<StartBuffer(held_line[1])>> ELSE <<>>)

RECURSIVE JoinIds(_)
JoinIds(es) == IF es = <<>> THEN <<>> ELSE Head(es).ids \o JoinIds(Tail(es))

\* the texts of a non-empty sequence of entries joined by newlines
RECURSIVE JoinTexts(_)
JoinTexts(es) ==
    IF Len(es) = 1 THEN es[1].text
    ELSE es[1].text \o <<"\n">> \o JoinTexts(Tail(es))

\* C25: until the reassembly task ends, the entries sent followed by what
\* the task holds are made of the raw lines received, each line once and in
\* order, and joined by newlines they are the lines received joined by
\* newlines.
C25_NoLoss ==
    reasm_pc # "done"
    => /\ JoinIds(Pieces) = [i \in 1..Received |-> i]
       /\ Received > 0 => JoinTexts(Pieces) = JoinLines(1, Received)

\* the stream is open, two entries were sent, one of them by a timeout
\* flush, and the buffer holds two lines
C25_Witness ==
    /\ ing_pc # "done"
    /\ reasm_pc = "recv"
    /\ Len(Emitted) = 2
    /\ flushed_after # {}
    /\ last_line # None
    /\ Len(last_line[1].ids) = 2

----------------------------------------------------------------------------
(* The local avatar's chat and emotes *)

\* C26: an iteration on a Chat line of the local avatar leaves last_seen
\* unchanged; an iteration on a timestamped Emote line that is whispered or
\* said writes the timestamp to last_seen under the sender's lower-cased
\* name, also when the sender is the local avatar.
C26_ChatOnlyExemption ==
    [][ /\ (/\ parsed_line' # None
            /\ IsChat(parsed_line'[1])
            /\ parsed_line'[1].name = avatar_name)
           => last_seen_in_chat_range' = last_seen_in_chat_range
        /\ (/\ parsed_line' # None
            /\ IsTimestampedEmote(parsed_line'[1])
            /\ parsed_line'[1].volume \in {"Whisper", "Say"})
           => last_seen_in_chat_range' =
                 Insert(last_seen_in_chat_range,
                        to_lowercase(parsed_line'[1].name),
                        parsed_line'[1].timestamp[1])
      ]_vars

\* a timestamped emote of the local avatar wrote its own record
C26_Witness ==
    /\ parsed_line # None
    /\ IsTimestampedEmote(parsed_line[1])
    /\ parsed_line[1].name = avatar_name
    /\ parsed_line[1].volume = "Say"
    /\ to_lowercase(avatar_name) \in DOMAIN last_seen_in_chat_range
    /\ last_seen_in_chat_range[to_lowercase(avatar_name)]
          = parsed_line[1].timestamp[1]

----------------------------------------------------------------------------
(* Greetings with an empty name *)

\* the greeting parser succeeds on the lower-cased text and one of the
\* names it returns is empty
HasEmptyToken(text) ==
    \E g \in {welcome_greeting_parser(to_lowercase(text))} :
        g.ok /\ \E i \in 1..Len(g.names) : g.names[i] = <<>>

\* C27: an iteration on a Chat line of the local avatar whose greeting
\* carries an empty name closes every pending handle once and leaves
\* notify_handles empty.
C27_EmptyTokenClosesAll ==
    [][(/\ parsed_line' # None
        /\ IsChat(parsed_line'[1])
        /\ parsed_line'[1].name = avatar_name
        /\ HasEmptyToken(parsed_line'[1].text))
       => /\ notify_handles' = EmptyMap
          /\ \A h \in 1..MaxHandles :
                closed'[h] =
                  IF \E k \in DOMAIN notify_handles : notify_handles[k] = h
                  THEN closed[h] + 1 ELSE closed[h]]_vars

\* the local avatar said "hi x, and y", which names nobody pending: both
\* notifications were open until then and are closed now
C27_Witness ==
    /\ parsed_line # None
    /\ IsChat(parsed_line[1])
    /\ parsed_line[1].name = avatar_name
    /\ Len(parsed_line[1].text) > 2
    /\ HasEmptyToken(parsed_line[1].text)
    /\ notify_handles = EmptyMap
    /\ next_handle = 2
    /\ closed = [h \in 1..MaxHandles |-> IF h <= 2 THEN 1 ELSE 0]

----------------------------------------------------------------------------
(* Deadlock freedom *)

\* a raw line or an entry is in a channel or in the hands of a task
Waiting ==
    \/ rx # <<>>
    \/ rx2 # <<>>
    \/ ing_line # None
    \/ held_line # None
    \/ reasm_pc \in {"flush", "emit"}

\* C28: whenever a raw line or an entry is waiting, a send, a receive or a
\* join of some task can be taken; and a task that waits in a send waits
\* for nothing but room in its channel: the ingestion task only while the
\* first channel is full, the reassembly task (timeout flush or emit of a
\* head pending) only while the second channel is full, and then the main
\* loop can receive.
C28_DeadlockFree ==
    /\ Waiting => ENABLED (IngestSend \/ ReasmStep \/ MainStep)
    /\ (ing_pc = "send" /\ ~ENABLED IngestSend) => Len(rx) = ChannelCap
    /\ (reasm_pc \in {"flush", "emit"} /\ ~ENABLED ReasmStep)
       => Len(rx2) = ChannelCap /\ ENABLED MainRecv

\* the reassembly task waits with a timeout flush for room in the full
\* second channel
C28_Witness ==
    /\ reasm_pc = "flush"
    /\ Len(rx2) = ChannelCap
    /\ main_pc = "loop"

====
